---- MODULE Spec2Model ----
(***************************************************************************)
(* Model of backdrop.py (wl-backdrop): a Wayland client that shows a clock *)
(* and a weather readout.  The main thread creates the surface, waits for  *)
(* the first configure, then multiplexes the display socket and three      *)
(* eventfd notifiers; a timer thread signals two of the notifiers; the     *)
(* SIGINT handler signals the third.                                       *)
(*                                                                         *)
(* Python values are modelled as follows: a missing dictionary key or a    *)
(* None is the string "None"/"unset"/"absent"; a Python string that the    *)
(* program converts (the interval) is a sequence of one-character strings; *)
(* bytes objects are sequences of byte values; a protocol object is        *)
(* an index into the sequence of objects created so far.                   *)
(***************************************************************************)
EXTENDS Integers, Sequences, FiniteSets, TLC

\* ------------------------------------------------------------------ bounds
\* Number of ShmBuffers the model lets the program create (startup + resizes).
MaxBuffers == 3
\* Number of SIGINT deliveries the environment makes.
MaxSigints == 2
\* Serials the compositor puts on surface-configure events: 1..MaxSerial.
MaxSerial == 2
\* Seconds of a timer cycle the specification Spec follows the timer thread for.
MaxSeconds == 3

\* ------------------------------------------------------- program constants
\* window_width / window_height at module load.
DefaultWidth == 1000
DefaultHeight == 200
\* bytes per pixel in create_buffer (width * height * 4).
BytesPerPixel == 4
\* seconds per minute in timer_thread (60 * timeout).
SecondsPerMinute == 60
\* the byte '0' of b"00000000".
AsciiZero == 48
\* os.eventfd counters are unsigned 64-bit: 8 bytes.
EventfdBytes == 8

\* ------------------------------------------------------------ input sets
Widths == {0, 800, DefaultWidth}
Heights == {0, 150, DefaultHeight}
Serials == 1..MaxSerial
Interfaces == {"wl_compositor", "xdg_wm_base", "wl_shm"}

\* A command-line string is a sequence of characters.
Str15 == <<"1", "5">>
NotGiven == [given |-> FALSE, text |-> <<>>]
Given(text) == [given |-> TRUE, text |-> text]
\* The argument vectors the model starts from: three that pass validation and
\* three whose interval does not.
ArgVectors ==
    {[location |-> "None", apikey |-> "None", interval |-> NotGiven, metric |-> FALSE],
     [location |-> "None", apikey |-> "KEY", interval |-> Given(<<"2">>), metric |-> FALSE],
     [location |-> "Denver", apikey |-> "KEY", interval |-> Given(<<"1">>), metric |-> TRUE]}
    \cup {[location |-> "Denver", apikey |-> "None", interval |-> Given(t), metric |-> FALSE] :
             t \in {<<"0">>, <<"-", "1">>, <<"x">>}}

\* ------------------------------------------------------------ int(str)
Digits == <<"0", "1", "2", "3", "4", "5", "6", "7", "8", "9">>
IsDigit(c) == \E d \in 1..10 : Digits[d] = c
DigitVal(c) == (CHOOSE d \in 1..10 : Digits[d] = c) - 1

RECURSIVE DecimalValue(_)
DecimalValue(s) ==
    IF s = <<>> THEN 0
    ELSE 10 * DecimalValue(SubSeq(s, 1, Len(s) - 1)) + DigitVal(s[Len(s)])

AllDigits(s) == s # <<>> /\ \A k \in 1..Len(s) : IsDigit(s[k])

\* Python int(text): [ok |-> FALSE] stands for ValueError.
PyInt(s) ==
    IF AllDigits(s) THEN [ok |-> TRUE, val |-> DecimalValue(s)]
    ELSE IF s # <<>> /\ s[1] = "-" /\ AllDigits(Tail(s))
         THEN [ok |-> TRUE, val |-> 0 - DecimalValue(Tail(s))]
    ELSE IF s # <<>> /\ s[1] = "+" /\ AllDigits(Tail(s))
         THEN [ok |-> TRUE, val |-> DecimalValue(Tail(s))]
    ELSE [ok |-> FALSE, val |-> 0]

\* exit(n): the status the parent sees.
ExitCode(n) == n % 256

\* ------------------------------------------------------------ eventfd
\* The counter is kept as its 8 little-endian bytes; os.write adds the
\* 8-byte value written.
SignalBytes == [k \in 1..EventfdBytes |-> AsciiZero]
ZeroCounter == [k \in 1..EventfdBytes |-> 0]
CounterMaxBytes == [k \in 1..EventfdBytes |-> IF k = 1 THEN 254 ELSE 255]

RECURSIVE CarryInto(_, _, _)
\* carry into byte k of a + b
CarryInto(a, b, k) ==
    IF k = 1 THEN 0 ELSE (a[k - 1] + b[k - 1] + CarryInto(a, b, k - 1)) \div 256

Add64(a, b) == [k \in 1..EventfdBytes |-> (a[k] + b[k] + CarryInto(a, b, k)) % 256]
Carry64(a, b) == CarryInto(a, b, EventfdBytes + 1)

RECURSIVE LeqFrom(_, _, _)
\* a <= b comparing bytes k, k-1, .., 1 (most significant first)
LeqFrom(a, b, k) ==
    IF k = 0 THEN TRUE
    ELSE IF a[k] # b[k] THEN a[k] < b[k]
    ELSE LeqFrom(a, b, k - 1)

Leq64(a, b) == LeqFrom(a, b, EventfdBytes)

\* eventfd write(2) completes at once iff counter + value <= 2^64 - 2.
HasRoom(count) ==
    Carry64(count, SignalBytes) = 0 /\ Leq64(Add64(count, SignalBytes), CounterMaxBytes)

\* ------------------------------------------------------------ weather inputs
\* What the provider can report: temperature in tenths of a degree (71.6 is
\* 716) and icon code.  Different observations differ in both fields.
Observations == {[temp |-> 716, icon |-> "01d"], [temp |-> 215, icon |-> "10n"]}
DefaultIcon == "10n"
DefaultLocation == "Colorado%20Springs"
TempField(kind, val) == [kind |-> kind, val |-> val]
IconField(kind, code) == [kind |-> kind, code |-> code]
\* What requests.get + json.loads produce for the weather URL: no answer, a
\* body that is no JSON, or JSON in which each of the two fields is present,
\* missing, or of the wrong shape.
Responses ==
    {[net |-> "error", json |-> "None", temp |-> TempField("missing", 0), icon |-> IconField("missing", "None")],
     [net |-> "ok", json |-> "malformed", temp |-> TempField("missing", 0), icon |-> IconField("missing", "None")]}
    \cup UNION {{[net |-> "ok", json |-> "ok", temp |-> t, icon |-> c] :
                    t \in {TempField("ok", o.temp), TempField("missing", 0),
                           TempField("malformed", 0)},
                    c \in {IconField("ok", o.icon), IconField("missing", "None"),
                           IconField("malformed", "None")}} : o \in Observations}
\* What the icon download produces: a PNG, an exception, or a body that is no PNG.
Downloads == {"png", "error", "garbage"}

\* ------------------------------------------------------------ state
VARIABLES
    args,                   \* the parsed command line
    mainpc,                 \* position of the main thread
    hpc,                    \* position inside handle_xdg_toplevel_configure
    close_caller,           \* who called close(): "none" or the calling line
    exit_status,            \* -1 while the process runs, else its exit status
    display,                \* "none" | "connected" | "disconnected"
    bindings,               \* interfaces bound by handle_registry_global
    surface,                \* TRUE once the surface and toplevel exist
    weather_update_interval,
    weather_location_key,
    weather_api_key,
    weather_metric_units,
    window_width,
    window_height,
    buffers,                \* every wl_buffer created: [width, height, destroyed]
    buffer1,                \* backdrop["buffer1"]: index into buffers, 0 = no key
    shm_data,               \* length in bytes of the mapped region, 0 = no key
    cairo_surface,          \* [width, height] of the ImageSurface
    attached,               \* buffer attached and committed on the surface, 0 = none
    wait_for_configure,     \* "unset" | "true" | "false"
    weather_temperature,    \* [deg, unit], unit "" before line 231
    weather_icon_surface,   \* icon code of the loaded PNG, "None" before line 245
    icon_cache,             \* files in weather-icons/: code -> "png" | "garbage"
    fds,                    \* the three eventfds: [state, count]
    running,                \* backdrop["running"]: "unset" | "true" | "false"
    sigint_handler,         \* TRUE once signal.signal has installed signal_handler
    sigints,                \* SIGINTs delivered so far
    tpc,                    \* position of the timer thread
    i,                      \* timer_thread's local i
    timeout,                \* timer_thread's local timeout
    events,                 \* fds of the current epoll.poll() result not yet handled
    out                     \* requests and prints issued by the latest step

startVars == <<args, display, bindings, surface, weather_update_interval,
               weather_api_key, weather_metric_units>>
geomVars == <<window_width, window_height>>
bufVars == <<buffers, buffer1, shm_data, cairo_surface>>
weatherVars == <<weather_location_key, weather_temperature, weather_icon_surface, icon_cache>>
timerVars == <<tpc, i, timeout>>
sigVars == <<sigint_handler, sigints>>
vars == <<args, mainpc, hpc, close_caller, exit_status, display, bindings, surface,
          weather_update_interval, weather_location_key, weather_api_key,
          weather_metric_units, window_width, window_height, buffers, buffer1,
          shm_data, cairo_surface, attached, wait_for_configure,
          weather_temperature, weather_icon_surface, icon_cache, fds, running,
          sigint_handler, sigints, tpc, i, timeout, events, out>>

Req(op, a, b) == [op |-> op, a |-> a, b |-> b]
NoFd == [state |-> "absent", count |-> ZeroCounter]
FdNames == {"weather_update_fd", "time_update_fd", "close_fd"}

Init ==
    /\ args \in ArgVectors
    /\ mainpc = "parse"
    /\ hpc = "idle"
    /\ close_caller = "none"
    /\ exit_status = -1
    /\ display = "none"
    /\ bindings = {}
    /\ surface = FALSE
    /\ weather_update_interval = <<>>
    /\ weather_location_key = "None"
    /\ weather_api_key = "None"
    /\ weather_metric_units = FALSE
    /\ window_width = DefaultWidth
    /\ window_height = DefaultHeight
    /\ buffers = <<>>
    /\ buffer1 = 0
    /\ shm_data = 0
    /\ cairo_surface = [width |-> 0, height |-> 0]
    /\ attached = 0
    /\ wait_for_configure = "unset"
    /\ weather_temperature = [deg |-> 0, unit |-> ""]
    /\ weather_icon_surface = "None"
    /\ icon_cache = [c \in {} |-> "png"]
    /\ fds = [n \in FdNames |-> NoFd]
    /\ running = "unset"
    /\ sigint_handler = FALSE
    /\ sigints = 0
    /\ tpc = "unstarted"
    /\ i = 0
    /\ timeout = 0
    /\ events = {}
    /\ out = <<>>

\* The process ends: exit(n), or an uncaught exception (status 1).
Exit(n) ==
    /\ mainpc' = "exited"
    /\ exit_status' = ExitCode(n)

\* ------------------------------------------------------------ backdrop_create
\* The test of line 175 with the bound off by one: 0 minutes pass.
IntervalRejected_negative(val) == val < 0

\* The test of line 175 on the converted interval.
IntervalRejected(val) == val < 1

\* Lines 158-184: parse the arguments, validate the interval.
ParseArgs ==
    /\ mainpc = "parse"
    /\ IF args.interval.given
       THEN IF ~PyInt(args.interval.text).ok
            THEN \* int() raises ValueError
                 /\ Exit(1)
                 /\ out' = <<Req("traceback", 0, 0)>>
                 /\ UNCHANGED <<weather_update_interval, weather_location_key,
                                weather_api_key, weather_metric_units>>
            ELSE IF IntervalRejected(PyInt(args.interval.text).val)
            THEN /\ Exit(-1)
                 /\ out' = <<Req("print:interval", 0, 0)>>
                 /\ UNCHANGED <<weather_update_interval, weather_location_key,
                                weather_api_key, weather_metric_units>>
            ELSE /\ weather_update_interval' = args.interval.text
                 /\ weather_location_key' = args.location
                 /\ weather_api_key' = args.apikey
                 /\ weather_metric_units' = args.metric
                 /\ mainpc' = "connect"
                 /\ out' = <<>>
                 /\ UNCHANGED exit_status
       ELSE /\ weather_update_interval' = Str15
            /\ weather_location_key' = args.location
            /\ weather_api_key' = args.apikey
            /\ weather_metric_units' = args.metric
            /\ mainpc' = "connect"
            /\ out' = <<>>
            /\ UNCHANGED exit_status
    /\ UNCHANGED <<args, hpc, close_caller, display, bindings, surface, geomVars, bufVars, attached,
                   wait_for_configure, weather_temperature, weather_icon_surface,
                   icon_cache, fds, running, sigVars, timerVars, events>>

\* handle_registry_global, applied to every global the compositor advertises.
handle_registry_global(globals) == globals \cap Interfaces

\* The tests of lines 198-208 without the third one (wl_shm).
AllBound_noshm(bound) == {"wl_compositor", "xdg_wm_base"} \subseteq bound

\* The tests of lines 198, 203 and 208: the three flags set by the bindings.
AllBound(bound) == Interfaces \subseteq bound

\* Lines 186-211: connect, one roundtrip for the registry, check the bindings.
ConnectAndBind(globals) ==
    /\ mainpc = "connect"
    /\ bindings' = handle_registry_global(globals)
    /\ IF AllBound(bindings')
       THEN /\ display' = "connected"
            /\ mainpc' = "create"
            /\ out' = <<>>
            /\ UNCHANGED exit_status
       ELSE /\ display' = "disconnected"
            /\ Exit(-1)
            /\ out' = <<Req("print:missing", 0, 0)>>
    /\ UNCHANGED <<args, hpc, close_caller, surface, weather_update_interval, weather_location_key,
                   weather_api_key, weather_metric_units, geomVars, bufVars, attached,
                   wait_for_configure, weather_temperature, weather_icon_surface,
                   icon_cache, fds, running, sigVars, timerVars, events>>

\* create_buffer, lines 56-70: the requests it sends, in order.
CreateBufferRequests(width, height) ==
    <<Req("create_pool", width * height * BytesPerPixel, 0)>>
    \o (IF buffer1 # 0 THEN <<Req("destroy", buffer1, 0)>> ELSE <<>>)
    \o <<Req("create_buffer", width, height), Req("pool_destroy", 0, 0)>>

\* create_buffer with the mapping sized in pixels instead of bytes.
create_buffer_pixels(width, height) ==
    /\ buffers' = Append(IF buffer1 # 0
                         THEN [buffers EXCEPT ![buffer1].destroyed = TRUE]
                         ELSE buffers,
                         [width |-> width, height |-> height, destroyed |-> FALSE])
    /\ buffer1' = Len(buffers) + 1
    /\ shm_data' = width * height
    /\ cairo_surface' = [width |-> width, height |-> height]

\* create_buffer, lines 56-70: its effect on the session.
create_buffer(width, height) ==
    /\ buffers' = Append(IF buffer1 # 0
                         THEN [buffers EXCEPT ![buffer1].destroyed = TRUE]
                         ELSE buffers,
                         [width |-> width, height |-> height, destroyed |-> FALSE])
    /\ buffer1' = Len(buffers) + 1
    /\ shm_data' = width * height * BytesPerPixel
    /\ cairo_surface' = [width |-> width, height |-> height]

\* Lines 213-248: surface, toplevel, first buffer, default temperature and icon.
CreateSurface(precached, download) ==
    /\ mainpc = "create"
    /\ surface' = TRUE
    /\ create_buffer(window_width, window_height)
    /\ weather_temperature' = [deg |-> 0, unit |-> IF weather_metric_units THEN "C" ELSE "F"]
    /\ icon_cache' = IF precached \/ download = "error"
                     THEN [c \in (IF precached THEN {DefaultIcon} ELSE {}) |-> "png"]
                     ELSE [c \in {DefaultIcon} |-> download]
    /\ IF ~precached /\ download # "png"
       THEN \* requests.get or create_from_png raises
            /\ Exit(1)
            /\ out' = <<Req("commit", 0, 0), Req("flush", 0, 0)>>
                      \o CreateBufferRequests(window_width, window_height)
                      \o <<Req("traceback", 0, 0)>>
            /\ UNCHANGED <<weather_icon_surface, wait_for_configure>>
       ELSE /\ weather_icon_surface' = DefaultIcon
            /\ wait_for_configure' = "true"
            /\ mainpc' = "wait"
            /\ out' = <<Req("commit", 0, 0), Req("flush", 0, 0)>>
                      \o CreateBufferRequests(window_width, window_height)
                      \o <<Req("commit", 0, 0), Req("flush", 0, 0)>>
            /\ UNCHANGED exit_status
    /\ UNCHANGED <<args, hpc, close_caller, display, bindings, weather_update_interval,
                   weather_location_key, weather_api_key, weather_metric_units,
                   geomVars, attached, fds, running, sigVars, timerVars, events>>

\* ------------------------------------------------------------ handlers
\* The main thread is inside display.roundtrip() (line 252) or
\* display.dispatch() (line 332) and no handler is part-way through.
Dispatching == mainpc \in {"wait", "dispatch"} /\ hpc = "idle"

\* handle_xdg_surface_configure acknowledging the first serial instead of
\* the one the event carries.
handle_xdg_surface_configure_stale(serial) ==
    /\ Dispatching
    /\ wait_for_configure' = "false"
    /\ out' = <<Req("ack_configure", 1, 0), Req("commit", 0, 0), Req("flush", 0, 0)>>
    /\ UNCHANGED <<startVars, mainpc, hpc, close_caller, exit_status, weatherVars, geomVars, bufVars,
                   attached, fds, running, sigVars, timerVars, events>>

\* handle_xdg_surface_configure, lines 72-77.
handle_xdg_surface_configure(serial) ==
    /\ Dispatching
    /\ wait_for_configure' = "false"
    /\ out' = <<Req("ack_configure", serial, 0), Req("commit", 0, 0), Req("flush", 0, 0)>>
    /\ UNCHANGED <<startVars, mainpc, hpc, close_caller, exit_status, weatherVars, geomVars, bufVars,
                   attached, fds, running, sigVars, timerVars, events>>

\* The condition of line 84 without its test of the height against 0.
ResizeAccepted_anyheight(width, height) ==
    width # 0 /\ window_width # width /\ window_height # height

\* The condition of line 84.
ResizeAccepted(width, height) ==
    width # 0 /\ height # 0 /\ window_width # width /\ window_height # height

\* handle_xdg_toplevel_configure without the test of lines 82-83.
handle_xdg_toplevel_configure_nowait(width, height) ==
    /\ Dispatching
    /\ IF ResizeAccepted(width, height)
       THEN /\ Len(buffers) < MaxBuffers
            /\ window_width' = width
            /\ window_height' = height
            /\ create_buffer(width, height)
            /\ out' = CreateBufferRequests(width, height)
            /\ hpc' = "line88"
       ELSE /\ out' = <<>>
            /\ UNCHANGED <<geomVars, bufVars, hpc>>
    /\ UNCHANGED <<close_caller, startVars, mainpc, exit_status, weatherVars, attached,
                   wait_for_configure, fds, running, sigVars, timerVars, events>>

\* handle_xdg_toplevel_configure, lines 79-87 (up to and including create_buffer).
handle_xdg_toplevel_configure(width, height) ==
    /\ Dispatching
    /\ IF wait_for_configure # "true" /\ ResizeAccepted(width, height)
       THEN /\ Len(buffers) < MaxBuffers
            /\ window_width' = width
            /\ window_height' = height
            /\ create_buffer(width, height)
            /\ out' = CreateBufferRequests(width, height)
            /\ hpc' = "line88"
       ELSE /\ out' = <<>>
            /\ UNCHANGED <<geomVars, bufVars, hpc>>
    /\ UNCHANGED <<close_caller, startVars, mainpc, exit_status, weatherVars, attached,
                   wait_for_configure, fds, running, sigVars, timerVars, events>>

\* Bytes cairo_surface.get_data() yields (FORMAT_ARGB32: stride = 4 * width).
CairoBytes == cairo_surface.width * BytesPerPixel * cairo_surface.height

\* redraw, lines 150-156: the requests it sends.
RedrawRequests ==
    <<Req("attach", buffer1, 0), Req("damage", window_width, window_height),
      Req("commit", 0, 0), Req("flush", 0, 0)>>

\* redraw, lines 106-156; mmap.write raises ValueError when the data do not fit.
redraw(before) ==
    IF CairoBytes > shm_data
    THEN /\ mainpc' = "crashed"
         /\ out' = before \o <<Req("traceback", 0, 0)>>
         /\ UNCHANGED attached
    ELSE /\ attached' = buffer1
         /\ out' = before \o RedrawRequests
         /\ UNCHANGED mainpc

\* handle_xdg_toplevel_configure, line 88.
ResizeRedraw ==
    /\ hpc = "line88"
    /\ mainpc \in {"wait", "dispatch"}
    /\ redraw(<<>>)
    /\ hpc' = "idle"
    /\ UNCHANGED <<close_caller, startVars, exit_status, weatherVars, geomVars, bufVars,
                   wait_for_configure, fds, running, sigVars, timerVars, events>>

\* handle_xdg_surface_close, lines 90-91: enters close().  close() does not
\* return, so what is left of main()'s list of events is dropped here.
handle_xdg_surface_close ==
    /\ Dispatching
    /\ close_caller' = "line91"
    /\ mainpc' = "close48"
    /\ events' = {}
    /\ out' = <<>>
    /\ UNCHANGED <<startVars, hpc, exit_status, weatherVars, geomVars, bufVars, attached,
                   wait_for_configure, fds, running, sigVars, timerVars>>

\* The wait loop of lines 251-252 left after one roundtrip, whatever the flag.
WaitReturn_early ==
    /\ mainpc = "wait"
    /\ hpc = "idle"
    /\ mainpc' = "main"
    /\ out' = <<>>
    /\ UNCHANGED <<startVars, hpc, close_caller, exit_status, weatherVars, geomVars, bufVars, attached,
                   wait_for_configure, fds, running, sigVars, timerVars, events>>

\* Lines 251-254: the wait loop sees wait_for_configure False and returns.
WaitReturn ==
    /\ mainpc = "wait"
    /\ hpc = "idle"
    /\ wait_for_configure = "false"
    /\ mainpc' = "main"
    /\ out' = <<>>
    /\ UNCHANGED <<startVars, hpc, close_caller, exit_status, weatherVars, geomVars, bufVars, attached,
                   wait_for_configure, fds, running, sigVars, timerVars, events>>

\* ------------------------------------------------------------ close()
\* Line 48.
Close48 ==
    /\ mainpc = "close48"
    /\ display' = "disconnected"
    /\ mainpc' = "close49"
    /\ out' = <<Req("disconnect", 0, 0)>>
    /\ UNCHANGED <<args, bindings, surface, weather_update_interval, weather_api_key,
                   weather_metric_units, hpc, close_caller, exit_status, weatherVars, geomVars, bufVars,
                   attached, wait_for_configure, fds, running, sigVars, timerVars, events>>

\* os.close(backdrop[name]): KeyError when main() has not created the eventfd.
CloseFd(pc, name, next) ==
    /\ mainpc = pc
    /\ IF fds[name].state = "absent"
       THEN /\ mainpc' = "crashed"
            /\ out' = <<Req("traceback", 0, 0)>>
            /\ UNCHANGED fds
       ELSE /\ fds' = [fds EXCEPT ![name].state = "closed"]
            /\ mainpc' = next
            /\ out' = <<Req("os.close", 0, 0)>>
    /\ UNCHANGED <<startVars, hpc, close_caller, exit_status, weatherVars, geomVars, bufVars, attached,
                   wait_for_configure, running, sigVars, timerVars, events>>

\* Lines 49, 50, 51.
Close49 == CloseFd("close49", "weather_update_fd", "close50")
Close50 == CloseFd("close50", "time_update_fd", "close51")
Close51 == CloseFd("close51", "close_fd", "close52")

\* Line 52.
Close52 ==
    /\ mainpc = "close52"
    /\ running' = "false"
    /\ mainpc' = "close53"
    /\ out' = <<>>
    /\ UNCHANGED <<startVars, hpc, close_caller, exit_status, weatherVars, geomVars, bufVars, attached,
                   wait_for_configure, fds, sigVars, timerVars, events>>

TimerEnded == tpc \in {"done", "error"}

\* Line 53: join returns once the timer thread has ended.
Close53 ==
    /\ mainpc = "close53"
    /\ TimerEnded
    /\ mainpc' = "close54"
    /\ out' = <<Req("joined", 0, 0)>>
    /\ UNCHANGED <<startVars, hpc, close_caller, exit_status, weatherVars, geomVars, bufVars, attached,
                   wait_for_configure, fds, running, sigVars, timerVars, events>>

\* Line 54.
Close54 ==
    /\ mainpc = "close54"
    /\ Exit(0)
    /\ out' = <<>>
    /\ UNCHANGED <<startVars, hpc, close_caller, weatherVars, geomVars, bufVars, attached,
                   wait_for_configure, fds, running, sigVars, timerVars, events>>

\* An exception nobody catches ended the main thread: the interpreter waits
\* for the (non-daemon) timer thread and exits with status 1.
UncaughtException ==
    /\ mainpc = "crashed"
    /\ tpc = "unstarted" \/ TimerEnded
    /\ Exit(1)
    /\ out' = <<>>
    /\ UNCHANGED <<startVars, hpc, close_caller, weatherVars, geomVars, bufVars, attached,
                   wait_for_configure, fds, running, sigVars, timerVars, events>>

\* ------------------------------------------------------------ weather refresh
\* int(x) of a number given in tenths: truncation towards zero.
IntOfTenths(t) == IF t >= 0 THEN t \div 10 ELSE 0 - ((0 - t) \div 10)

\* update_weather_info with the location test (lines 268-270) placed before
\* the API key test (lines 265-267).
update_weather_info_location_first(resp, dl) ==
    LET unit == IF weather_metric_units THEN "C" ELSE "F"
        loc == IF weather_location_key = "None" THEN DefaultLocation ELSE weather_location_key
        notice == IF weather_location_key = "None"
                  THEN <<Req("print:no_location", 0, 0)>> ELSE <<>>
        start == notice \o <<Req("print:updating", 0, 0), Req("requests.get", 0, 0)>>
        failed == start \o <<Req("print:failed", 0, 0)>>
        newtemp == [deg |-> IntOfTenths(resp.temp.val), unit |-> unit]
        code == resp.icon.code
        hit == code \in DOMAIN icon_cache
        cache == IF hit \/ dl = "error" THEN icon_cache
                 ELSE [c \in DOMAIN icon_cache \cup {code} |->
                          IF c = code THEN dl ELSE icon_cache[c]]
        same == [loc |-> loc, temp |-> weather_temperature, icon |-> weather_icon_surface,
                 cache |-> icon_cache, out |-> failed]
    IN  IF weather_api_key = "None"
        THEN [loc |-> loc, temp |-> weather_temperature,
              icon |-> weather_icon_surface, cache |-> icon_cache,
              out |-> notice \o <<Req("print:no_apikey", 0, 0)>>]
        ELSE IF resp.net # "ok" \/ resp.json # "ok" \/ resp.temp.kind # "ok"
        THEN same
        ELSE IF resp.icon.kind # "ok" \/ (~hit /\ dl = "error")
        THEN [same EXCEPT !.temp = newtemp]
        ELSE IF cache[code] # "png"
        THEN [same EXCEPT !.temp = newtemp, !.cache = cache]
        ELSE [loc |-> loc, temp |-> newtemp, icon |-> code, cache |-> cache,
              out |-> start \o <<Req("print:success", 0, 0)>>]

\* update_weather_info, lines 264-300, for the provider's response resp and the
\* icon download outcome dl: the new WeatherState and what is printed.
update_weather_info(resp, dl) ==
    LET unit == IF weather_metric_units THEN "C" ELSE "F"
        loc == IF weather_location_key = "None" THEN DefaultLocation ELSE weather_location_key
        notice == IF weather_location_key = "None"
                  THEN <<Req("print:no_location", 0, 0)>> ELSE <<>>
        start == notice \o <<Req("print:updating", 0, 0), Req("requests.get", 0, 0)>>
        failed == start \o <<Req("print:failed", 0, 0)>>
        newtemp == [deg |-> IntOfTenths(resp.temp.val), unit |-> unit]
        code == resp.icon.code
        hit == code \in DOMAIN icon_cache
        cache == IF hit \/ dl = "error" THEN icon_cache
                 ELSE [c \in DOMAIN icon_cache \cup {code} |->
                          IF c = code THEN dl ELSE icon_cache[c]]
        same == [loc |-> loc, temp |-> weather_temperature, icon |-> weather_icon_surface,
                 cache |-> icon_cache, out |-> failed]
    IN  IF weather_api_key = "None"
        THEN [loc |-> weather_location_key, temp |-> weather_temperature,
              icon |-> weather_icon_surface, cache |-> icon_cache,
              out |-> <<Req("print:no_apikey", 0, 0)>>]
        ELSE IF resp.net # "ok" \/ resp.json # "ok" \/ resp.temp.kind # "ok"
        THEN same
        ELSE IF resp.icon.kind # "ok" \/ (~hit /\ dl = "error")
        THEN [same EXCEPT !.temp = newtemp]
        ELSE IF cache[code] # "png"
        THEN [same EXCEPT !.temp = newtemp, !.cache = cache]
        ELSE [loc |-> loc, temp |-> newtemp, icon |-> code, cache |-> cache,
              out |-> start \o <<Req("print:success", 0, 0)>>]

\* ------------------------------------------------------------ main()
\* Lines 314-316: install the SIGINT handler, create the epoll object.
MainInstall ==
    /\ mainpc = "main"
    /\ sigint_handler' = TRUE
    /\ mainpc' = "main317"
    /\ out' = <<>>
    /\ UNCHANGED <<startVars, hpc, close_caller, exit_status, weatherVars, geomVars, bufVars, attached,
                   wait_for_configure, fds, running, sigints, timerVars, events>>

\* os.write(fd, b"00000000") on an open eventfd with room.
Signalled(fd) == [fd EXCEPT !.count = Add64(fd.count, SignalBytes)]

\* Lines 317-327: the three eventfds, the first weather signal, the timer thread.
MainSetup ==
    /\ mainpc = "main317"
    /\ fds' = [n \in FdNames |->
                 IF n = "weather_update_fd"
                 THEN Signalled([state |-> "open", count |-> ZeroCounter])
                 ELSE [state |-> "open", count |-> ZeroCounter]]
    /\ running' = "true"
    /\ tpc' = "t303"
    /\ mainpc' = "poll"
    /\ out' = <<>>
    /\ UNCHANGED <<startVars, hpc, close_caller, exit_status, weatherVars, geomVars, bufVars, attached,
                   wait_for_configure, sigVars, i, timeout, events>>

Readable(n) == fds[n].state = "open" /\ fds[n].count # ZeroCounter

\* Lines 328-329: epoll.poll() returns every ready descriptor; the display
\* socket is ready when the compositor has sent something.
Poll(display_ready) ==
    /\ mainpc = "poll"
    /\ running = "true"
    /\ events' = {n \in FdNames : Readable(n)}
                   \cup (IF display_ready THEN {"display"} ELSE {})
    /\ events' # {}
    /\ mainpc' = "for"
    /\ out' = <<>>
    /\ UNCHANGED <<startVars, hpc, close_caller, exit_status, weatherVars, geomVars, bufVars, attached,
                   wait_for_configure, fds, running, sigVars, timerVars>>

\* os.read left out: the counter keeps its value.
NotDrained(fd) == fd

\* os.read(fd, 8): returns the counter and resets it; blocks while it is 0.
Drained(fd) == [fd EXCEPT !.count = ZeroCounter]
\* The value os.read returns, as its least and most significant bytes.
ReadRequest(fd) == Req("os.read", fd.count[1], fd.count[EventfdBytes])

\* Lines 331-332: enter display.dispatch(block=True).
HandleDisplay ==
    /\ mainpc = "for"
    /\ "display" \in events
    /\ events' = events \ {"display"}
    /\ mainpc' = "dispatch"
    /\ out' = <<>>
    /\ UNCHANGED <<startVars, hpc, close_caller, exit_status, weatherVars, geomVars, bufVars, attached,
                   wait_for_configure, fds, running, sigVars, timerVars>>

\* Line 332: dispatch returns the number of events handled (not -1).
DispatchReturn ==
    /\ mainpc = "dispatch"
    /\ hpc = "idle"
    /\ mainpc' = "for"
    /\ out' = <<>>
    /\ UNCHANGED <<startVars, hpc, close_caller, exit_status, weatherVars, geomVars, bufVars, attached,
                   wait_for_configure, fds, running, sigVars, timerVars, events>>

\* Lines 332-333: dispatch returns -1, close(backdrop).
DispatchError ==
    /\ mainpc = "dispatch"
    /\ hpc = "idle"
    /\ close_caller' = "line333"
    /\ mainpc' = "close48"
    /\ events' = {}
    /\ out' = <<>>
    /\ UNCHANGED <<startVars, hpc, exit_status, weatherVars, geomVars, bufVars, attached,
                   wait_for_configure, fds, running, sigVars, timerVars>>

\* Lines 335-337.
HandleWeather(resp, dl) ==
    /\ mainpc = "for"
    /\ "weather_update_fd" \in events
    /\ fds["weather_update_fd"].count # ZeroCounter
    /\ events' = events \ {"weather_update_fd"}
    /\ fds' = [fds EXCEPT !["weather_update_fd"] = Drained(@)]
    /\ LET r == update_weather_info(resp, dl)
       IN  /\ weather_location_key' = r.loc
           /\ weather_temperature' = r.temp
           /\ weather_icon_surface' = r.icon
           /\ icon_cache' = r.cache
           /\ out' = <<ReadRequest(fds["weather_update_fd"])>> \o r.out
    /\ UNCHANGED <<startVars, mainpc, hpc, close_caller, exit_status, geomVars, bufVars, attached,
                   wait_for_configure, running, sigVars, timerVars>>

\* Lines 338-340: update_time_info is redraw.
HandleTime ==
    /\ mainpc = "for"
    /\ "time_update_fd" \in events
    /\ fds["time_update_fd"].count # ZeroCounter
    /\ events' = events \ {"time_update_fd"}
    /\ fds' = [fds EXCEPT !["time_update_fd"] = Drained(@)]
    /\ redraw(<<ReadRequest(fds["time_update_fd"])>>)
    /\ UNCHANGED <<startVars, hpc, close_caller, exit_status, weatherVars, geomVars, bufVars,
                   wait_for_configure, running, sigVars, timerVars>>

\* Lines 341-343.
HandleClose ==
    /\ mainpc = "for"
    /\ "close_fd" \in events
    /\ fds["close_fd"].count # ZeroCounter
    /\ events' = {}
    /\ fds' = [fds EXCEPT !["close_fd"] = Drained(@)]
    /\ close_caller' = "line343"
    /\ mainpc' = "close48"
    /\ out' = <<ReadRequest(fds["close_fd"])>>
    /\ UNCHANGED <<startVars, hpc, exit_status, weatherVars, geomVars, bufVars, attached,
                   wait_for_configure, running, sigVars, timerVars>>

\* Line 330 exhausted, back to line 328.
ForDone ==
    /\ mainpc = "for"
    /\ events = {}
    /\ mainpc' = "poll"
    /\ out' = <<>>
    /\ UNCHANGED <<startVars, hpc, close_caller, exit_status, weatherVars, geomVars, bufVars, attached,
                   wait_for_configure, fds, running, sigVars, timerVars, events>>

\* ------------------------------------------------------------ signal_handler
\* Lines 258-259, run by the main thread between two of its steps.  A KeyError
\* (no close_fd yet) or OSError (close_fd closed) propagates out of the main
\* thread; a write that finds no room blocks the main thread.
signal_handler ==
    /\ sigint_handler
    /\ sigints < MaxSigints
    /\ mainpc \notin {"exited", "crashed", "sigblocked"}
    /\ sigints' = sigints + 1
    /\ IF fds["close_fd"].state # "open"
       THEN /\ mainpc' = "crashed"
            /\ out' = <<Req("traceback", 0, 0)>>
            /\ UNCHANGED fds
       ELSE IF HasRoom(fds["close_fd"].count)
       THEN /\ fds' = [fds EXCEPT !["close_fd"] = Signalled(@)]
            /\ UNCHANGED <<mainpc, out>>
       ELSE /\ mainpc' = "sigblocked"
            /\ UNCHANGED <<fds, out>>
    /\ UNCHANGED <<startVars, hpc, close_caller, exit_status, weatherVars, geomVars, bufVars, attached,
                   wait_for_configure, running, sigint_handler, timerVars, events>>

\* ------------------------------------------------------------ timer_thread
\* Lines 303-305: the thread's locals and the first test of the running flag.
TimerStart ==
    /\ tpc = "t303"
    /\ i' = 0
    /\ timeout' = PyInt(weather_update_interval).val
    /\ tpc' = IF running = "true" THEN "t306" ELSE "done"
    /\ UNCHANGED <<startVars, mainpc, hpc, close_caller, exit_status, weatherVars,
                   geomVars, bufVars, attached, wait_for_configure, fds, running,
                   sigVars, events, out>>

\* os.write(backdrop[name], b"00000000") by the timer thread, about to be
\* called (at) or blocked inside the call (blocked).  A closed descriptor
\* raises OSError, which ends the thread; a full counter blocks the call, and
\* a call already blocked is not woken by closing the descriptor.
TimerWrite(at, blocked, name, next) ==
    \/ /\ tpc = at
       /\ fds[name].state # "open"
       /\ tpc' = "error"
       /\ UNCHANGED fds
    \/ /\ tpc = at
       /\ fds[name].state = "open"
       /\ ~HasRoom(fds[name].count)
       /\ tpc' = blocked
       /\ UNCHANGED fds
    \/ /\ \/ tpc = at /\ fds[name].state = "open"
          \/ tpc = blocked
       /\ HasRoom(fds[name].count)
       /\ fds' = [fds EXCEPT ![name] = Signalled(@)]
       /\ tpc' = next

\* Line 306.
TimerTick ==
    /\ TimerWrite("t306", "t306b", "time_update_fd", "t307")
    /\ UNCHANGED <<startVars, mainpc, hpc, close_caller, exit_status, weatherVars,
                   geomVars, bufVars, attached, wait_for_configure, running, sigVars,
                   i, timeout, events, out>>

\* Lines 307-309 with the test of line 309 strict (i > 60 * timeout).
TimerSleep_late(seconds) ==
    /\ tpc = "t307"
    /\ i < seconds \/ fds["time_update_fd"].state # "open"
    /\ i' = i + 1
    /\ tpc' = IF i' > SecondsPerMinute * timeout THEN "t310"
              ELSE IF running = "true" THEN "t306" ELSE "done"
    /\ UNCHANGED <<startVars, mainpc, hpc, close_caller, exit_status, weatherVars,
                   geomVars, bufVars, attached, wait_for_configure, fds, running,
                   sigVars, timeout, events, out>>

\* Lines 307-309 (and line 305 when the test of line 309 fails).  The model
\* follows the thread through `seconds` sleeps of a cycle while the tick
\* descriptor is open; once close() has closed it every sleep returns.
TimerSleep(seconds) ==
    /\ tpc = "t307"
    /\ i < seconds \/ fds["time_update_fd"].state # "open"
    /\ i' = i + 1
    /\ tpc' = IF i' >= SecondsPerMinute * timeout THEN "t310"
              ELSE IF running = "true" THEN "t306" ELSE "done"
    /\ UNCHANGED <<startVars, mainpc, hpc, close_caller, exit_status, weatherVars,
                   geomVars, bufVars, attached, wait_for_configure, fds, running,
                   sigVars, timeout, events, out>>

\* Line 310.
TimerWeather ==
    /\ TimerWrite("t310", "t310b", "weather_update_fd", "t311")
    /\ UNCHANGED <<startVars, mainpc, hpc, close_caller, exit_status, weatherVars,
                   geomVars, bufVars, attached, wait_for_configure, running, sigVars,
                   i, timeout, events, out>>

\* Line 311, then line 305.
TimerReset ==
    /\ tpc = "t311"
    /\ i' = 0
    /\ tpc' = IF running = "true" THEN "t306" ELSE "done"
    /\ UNCHANGED <<startVars, mainpc, hpc, close_caller, exit_status, weatherVars,
                   geomVars, bufVars, attached, wait_for_configure, fds, running,
                   sigVars, timeout, events, out>>

\* ------------------------------------------------------------ specification
Startup ==
    \/ ParseArgs
    \/ \E globals \in SUBSET (Interfaces \cup {"wl_seat"}) : ConnectAndBind(globals)
    \/ \E precached \in BOOLEAN, dl \in Downloads : CreateSurface(precached, dl)
    \/ \E serial \in Serials : handle_xdg_surface_configure(serial)
    \/ WaitReturn
    \/ MainInstall
    \/ MainSetup

Toplevel ==
    \/ \E width \in Widths, height \in Heights : handle_xdg_toplevel_configure(width, height)
    \/ ResizeRedraw
    \/ handle_xdg_surface_close

EventLoop ==
    \/ \E ready \in BOOLEAN : Poll(ready)
    \/ HandleDisplay
    \/ DispatchReturn
    \/ DispatchError
    \/ \E resp \in Responses, dl \in Downloads : HandleWeather(resp, dl)
    \/ HandleTime
    \/ HandleClose
    \/ ForDone

Teardown ==
    \/ Close48
    \/ Close49
    \/ Close50
    \/ Close51
    \/ Close52
    \/ Close53
    \/ Close54
    \/ UncaughtException

\* The timer thread during the first MaxSeconds seconds of a cycle.
TimerThread ==
    \/ TimerStart
    \/ TimerTick
    \/ TimerSleep(MaxSeconds)

\* The whole program, the timer thread followed for MaxSeconds seconds.
Next == Startup \/ Toplevel \/ EventLoop \/ Teardown \/ signal_handler \/ TimerThread

Spec == Init /\ [][Next]_vars

\* The timer thread followed through whole cycles, for one command line, a
\* compositor that sends the first surface configure and then nothing, and a
\* provider that answers completely or not at all.
InitTimer == Init /\ args.location = "Denver" /\ args.apikey = "KEY"

QuietStartup ==
    \/ ParseArgs
    \/ ConnectAndBind(Interfaces)
    \/ CreateSurface(TRUE, "png")
    \/ handle_xdg_surface_configure(1) /\ mainpc = "wait"
    \/ WaitReturn
    \/ MainInstall
    \/ MainSetup

QuietResponses ==
    {r \in Responses : r.net = "error" \/ (r.temp.kind = "ok" /\ r.icon.kind = "ok")}

QuietEventLoop ==
    \/ Poll(FALSE)
    \/ \E resp \in QuietResponses : HandleWeather(resp, "png")
    \/ HandleTime
    \/ HandleClose
    \/ ForDone

WholeTimerThread ==
    \/ TimerStart
    \/ TimerTick
    \/ TimerSleep(SecondsPerMinute * timeout)
    \/ TimerWeather
    \/ TimerReset

NextTimer ==
    QuietStartup \/ QuietEventLoop \/ Teardown \/ signal_handler \/ WholeTimerThread

SpecTimer == InitTimer /\ [][NextTimer]_vars

\* ------------------------------------------------------------ properties
Ready == wait_for_configure = "false"
Ops(seq) == [k \in DOMAIN seq |-> seq[k].op]

\* C1: the buffer attached to the surface is never a destroyed one; a buffer
\* is destroyed only once its replacement is attached and committed.
C1_AttachedBufferAlive ==
    attached # 0 => ~buffers[attached].destroyed

\* C2: once Ready, a toplevel configure with non-zero width and height that
\* differs from the current geometry in at least one dimension is accepted:
\* the geometry becomes (width, height), a buffer is allocated, and the
\* handler goes on to render, attach, damage, commit and flush.
C2_DifferingConfigureAccepted ==
    [][/\ \A width \in Widths, height \in Heights :
            (/\ Ready
             /\ width # 0
             /\ height # 0
             /\ <<width, height>> # <<window_width, window_height>>
             /\ Len(buffers) < MaxBuffers
             /\ handle_xdg_toplevel_configure(width, height))
            => (/\ window_width' = width
                /\ window_height' = height
                /\ buffer1' = Len(buffers) + 1
                /\ hpc' = "line88")
       /\ (hpc = "line88" /\ hpc' = "idle")
            => (/\ attached' = buffer1
                /\ Ops(out') = <<"attach", "damage", "commit", "flush">>)]_vars

\* C3: from the first allocation on, the mapped region holds exactly
\* window_width * window_height * 4 bytes, the buffer object and the cairo
\* surface have the window's width and height, and every damage rectangle
\* redraw sends has that width and height.
C3_BufferMatchesGeometry ==
    buffer1 # 0 =>
        /\ shm_data = window_width * window_height * BytesPerPixel
        /\ buffers[buffer1].width = window_width
        /\ buffers[buffer1].height = window_height
        /\ cairo_surface = [width |-> window_width, height |-> window_height]
        /\ CairoBytes = shm_data
        /\ \A k \in DOMAIN out :
              out[k].op = "damage" =>
                  /\ out[k].a = buffers[buffer1].width
                  /\ out[k].b = buffers[buffer1].height

\* C3 witness: a resize to 800x150 was accepted and drawn.
C3_Witness ==
    /\ window_width = 800
    /\ window_height = 150
    /\ Len(buffers) >= 2
    /\ attached = buffer1
    /\ shm_data = 800 * 150 * 4
    /\ \E k \in DOMAIN out : out[k] = Req("damage", 800, 150)

\* C4: a toplevel configure delivered while wait_for_configure is true
\* changes neither the geometry, nor the buffer, nor what is attached, and
\* sends nothing; and whenever an event can be dispatched the flag has been
\* set, and it is true until a surface configure clears it.
C4_IgnoredBeforeConfigure ==
    /\ [](mainpc \in {"wait", "dispatch"} => wait_for_configure # "unset")
    /\ [][/\ (wait_for_configure = "true"
              /\ \E width \in Widths, height \in Heights :
                     handle_xdg_toplevel_configure(width, height))
             => (/\ UNCHANGED <<geomVars, bufVars, attached, wait_for_configure>>
                 /\ out' = <<>>)
          /\ (wait_for_configure = "true" /\ wait_for_configure' # "true")
             => (/\ wait_for_configure' = "false"
                 /\ Ops(out') = <<"ack_configure", "commit", "flush">>)]_vars

\* C4 witness: still waiting, and the latest step was a toplevel configure
\* (the only step that sends nothing while the flag is true).
C4_Witness ==
    /\ mainpc = "wait"
    /\ wait_for_configure = "true"
    /\ out = <<>>
    /\ attached = 0
    /\ window_width = DefaultWidth

\* The terminal state of a full teardown: disconnected, the three eventfds
\* closed, the running flag cleared, the timer thread ended, exit status 0.
CleanExit ==
    /\ exit_status = 0
    /\ display = "disconnected"
    /\ \A n \in FdNames : fds[n].state = "closed"
    /\ running = "false"
    /\ TimerEnded

\* C5: when the main loop has consumed a shutdown notification raised by the
\* SIGINT handler (close() called from line 343), the process ends only in
\* the terminal state of a full teardown, with exit status 0.
C5_SigintEndsInCleanExit ==
    (mainpc = "exited" /\ close_caller = "line343") => CleanExit

\* C6: the timer thread never calls os.write on a descriptor that close()
\* has already closed (such a call raises OSError and ends the thread).
C6_NoWriteAfterClose ==
    tpc # "error"

\* C7: draining the tick notifier consumes every pending signal at once
\* (the counter is 0 and the notifier not ready afterwards) and dispatches
\* exactly one redraw, however many signals were pending; and the main loop
\* redraws only in such a drain step.
C7_OneRedrawPerDrain ==
    [][/\ (mainpc = "for" /\ mainpc' = "for"
           /\ "time_update_fd" \in events /\ "time_update_fd" \notin events')
          => (/\ fds'["time_update_fd"].count = ZeroCounter
              /\ out'[1] = ReadRequest(fds["time_update_fd"])
              /\ out'[1].a # 0
              /\ Cardinality({k \in DOMAIN out' : out'[k].op = "attach"}) = 1)
       /\ (mainpc = "for" /\ out' # out
           /\ \E k \in DOMAIN out' : out'[k].op = "attach")
          => ("time_update_fd" \in events /\ "time_update_fd" \notin events')]_vars

\* C7 witness: two signals were pending; one read took both, one redraw
\* followed, and the notifier is not ready.
C7_Witness ==
    /\ mainpc = "for"
    /\ Len(out) = 5
    /\ out[1] = Req("os.read", 2 * AsciiZero, 2 * AsciiZero)
    /\ Ops(out) = <<"os.read", "attach", "damage", "commit", "flush">>
    /\ ~Readable("time_update_fd")

\* C8: a weather refresh that reports failure leaves the temperature string
\* and the icon as they were.
C8_FailedRefreshKeepsState ==
    [][(/\ mainpc = "for"
        /\ "weather_update_fd" \in events /\ "weather_update_fd" \notin events'
        /\ \E k \in DOMAIN out' : out'[k].op = "print:failed")
       => (/\ weather_temperature' = weather_temperature
           /\ weather_icon_surface' = weather_icon_surface)]_vars

\* C9: the displayed temperature and icon are both the defaults or both
\* those of one provider response.
C9_TemperatureAndIconAgree ==
    weather_icon_surface # "None" =>
        \/ weather_temperature.deg = 0 /\ weather_icon_surface = DefaultIcon
        \/ \E o \in Observations :
              /\ weather_temperature.deg = IntOfTenths(o.temp)
              /\ weather_icon_surface = o.icon

\* C10: a toplevel close event, in whatever state it is delivered, ends the
\* process in the terminal state of a full teardown, with exit status 0.
C10_CloseEventEndsInCleanExit ==
    (mainpc = "exited" /\ close_caller = "line91") => CleanExit

\* C11: when display.dispatch reports a fatal error (close() called from
\* line 333), the process ends only after the whole teardown, in order:
\* disconnected, the three eventfds closed, the running flag cleared, the
\* timer thread joined, exit status 0.
C11_DispatchErrorEndsInCleanExit ==
    (mainpc = "exited" /\ close_caller = "line333") => CleanExit

\* C12: a surface exists only if wl_compositor, xdg_wm_base and wl_shm are
\* all bound; when the registry roundtrip leaves one of them unbound the
\* process has disconnected and exited with a non-zero status, and there is
\* no surface, no buffer, no eventfd and no timer thread.
C12_SurfaceOnlyWithAllBound ==
    /\ surface => Interfaces \subseteq bindings
    /\ (display # "none" /\ ~(Interfaces \subseteq bindings)) =>
          /\ mainpc = "exited"
          /\ exit_status \notin {-1, 0}
          /\ display = "disconnected"
          /\ ~surface
          /\ buffers = <<>>
          /\ \A n \in FdNames : fds[n].state = "absent"
          /\ running = "unset"
          /\ tpc = "unstarted"

\* C12 witness: the compositor advertised no wl_shm and the process exited.
C12_Witness ==
    /\ bindings = {"wl_compositor", "xdg_wm_base"}
    /\ mainpc = "exited"
    /\ exit_status = 255
    /\ display = "disconnected"

\* C13: an --interval whose value is smaller than 1 ends the process with
\* the validation message and a non-zero status before anything is connected
\* or created; a value of at least 1 becomes the refresh interval, and is the
\* number of minutes the timer thread counts.
C13_IntervalValidated ==
    (args.interval.given /\ PyInt(args.interval.text).ok /\ mainpc # "parse") =>
        IF PyInt(args.interval.text).val < 1
        THEN /\ mainpc = "exited"
             /\ exit_status \notin {-1, 0}
             /\ out = <<Req("print:interval", 0, 0)>>
             /\ display = "none"
             /\ ~surface
             /\ buffers = <<>>
        ELSE /\ weather_update_interval = args.interval.text
             /\ PyInt(weather_update_interval).val = PyInt(args.interval.text).val
             /\ tpc \notin {"unstarted", "t303"} => timeout = PyInt(args.interval.text).val

\* C13 witness: --interval 0 was rejected.
C13_Witness ==
    /\ args.interval = Given(<<"0">>)
    /\ mainpc = "exited"
    /\ exit_status = 255
    /\ display = "none"

\* A step of the main loop that handles the weather notifier.
WeatherHandled ==
    /\ mainpc = "for" /\ mainpc' = "for"
    /\ "weather_update_fd" \in events /\ "weather_update_fd" \notin events'

\* C14 as stated: with neither API key nor location, the refresh handler
\* prints both notices, sets the location to the default, requests nothing
\* from the network and leaves the temperature at its default.
C14_BothNoticesAndDefaultLocation ==
    [][(WeatherHandled /\ weather_api_key = "None" /\ weather_location_key = "None")
       => (/\ \E k \in DOMAIN out' : out'[k].op = "print:no_apikey"
           /\ \E k \in DOMAIN out' : out'[k].op = "print:no_location"
           /\ weather_location_key' = DefaultLocation
           /\ \A k \in DOMAIN out' : out'[k].op # "requests.get"
           /\ weather_temperature' = [deg |-> 0, unit |-> "F"])]_vars

\* C14 as amended: with neither API key nor location, the refresh handler
\* prints the missing-API-key notice only and returns: the location stays
\* unset, nothing is requested from the network, and temperature and icon
\* stay at their defaults.
C14_ApiKeyNoticeOnly ==
    [][(WeatherHandled /\ weather_api_key = "None" /\ weather_location_key = "None")
       => (/\ Ops(out') = <<"os.read", "print:no_apikey">>
           /\ weather_location_key' = "None"
           /\ weather_temperature' = [deg |-> 0, unit |-> "F"]
           /\ weather_icon_surface' = DefaultIcon
           /\ UNCHANGED weatherVars)]_vars

\* C14 witness: the handler ran without API key and location.
C14_Witness ==
    /\ args.apikey = "None"
    /\ args.location = "None"
    /\ mainpc = "for"
    /\ Ops(out) = <<"os.read", "print:no_apikey">>
    /\ weather_location_key = "None"
    /\ weather_temperature = [deg |-> 0, unit |-> "F"]

\* C15: the timer thread signals the tick notifier once before each
\* one-second sleep, counts each sleep in i, signals the weather notifier
\* exactly when i has reached 60 * timeout, and resets i to 0 right after;
\* so i stays within 0 .. 60 * timeout and 60 * timeout tick signals lie
\* between two weather signals of the thread.
C15_WeatherEverySixtyTicks ==
    /\ [](i \in 0..(SecondsPerMinute * timeout))
    /\ [][/\ (tpc \in {"t306", "t306b"} /\ tpc' = "t307")
             => (/\ i' = i
                 /\ i < SecondsPerMinute * timeout
                 /\ fds'["time_update_fd"].count
                      = Add64(fds["time_update_fd"].count, SignalBytes))
          /\ (tpc = "t307" /\ tpc' # "t307")
             => (/\ i' = i + 1
                 /\ (tpc' = "t310") <=> (i' = SecondsPerMinute * timeout))
          /\ (tpc \in {"t310", "t310b"} /\ tpc' = "t311")
             => (/\ i = SecondsPerMinute * timeout
                 /\ fds'["weather_update_fd"].count
                      = Add64(fds["weather_update_fd"].count, SignalBytes))
          /\ (tpc = "t311" /\ tpc' # "t311") => i' = 0
          /\ (i' # i) => tpc \in {"t307", "t311"}]_vars

\* C15 witness: the thread has signalled the weather notifier after 60 ticks.
C15_Witness ==
    /\ tpc = "t311"
    /\ timeout = 1
    /\ i = SecondsPerMinute
    /\ running = "true"

\* C16: every surface configure with serial s is answered by
\* ack_configure(s), commit, flush, in that order; wait_for_configure is
\* false from the first one on and is never true again; the wait loop of
\* backdrop_create returns only when it is false.
C16_AckEchoesSerial ==
    [][/\ \A serial \in Serials :
             handle_xdg_surface_configure(serial)
             => (/\ out' = <<Req("ack_configure", serial, 0), Req("commit", 0, 0),
                             Req("flush", 0, 0)>>
                 /\ wait_for_configure' = "false")
       /\ (out' # out /\ \E k \in DOMAIN out' : out'[k].op = "ack_configure")
             => \E serial \in Serials : handle_xdg_surface_configure(serial)
       /\ wait_for_configure = "false" => wait_for_configure' = "false"
       /\ (mainpc = "wait" /\ mainpc' = "main") => wait_for_configure = "false"]_vars

\* C16 witness: a later surface configure (serial 2), in the main loop.
C16_Witness ==
    /\ mainpc = "dispatch"
    /\ wait_for_configure = "false"
    /\ out = <<Req("ack_configure", 2, 0), Req("commit", 0, 0), Req("flush", 0, 0)>>

\* C17: a toplevel configure with width 0, height 0, or the current width
\* and height changes neither the geometry, nor the buffer, nor its mapping,
\* nor what is attached, and sends nothing; the geometry changes only in an
\* accepted toplevel configure, to a non-zero size.
C17_IgnoredConfigureChangesNothing ==
    [][/\ \A width \in Widths, height \in Heights :
             (/\ \/ width = 0
                 \/ height = 0
                 \/ <<width, height>> = <<window_width, window_height>>
              /\ handle_xdg_toplevel_configure(width, height))
             => (/\ UNCHANGED <<geomVars, bufVars, attached>>
                 /\ out' = <<>>)
       /\ (geomVars' # geomVars)
             => (/\ Ready
                 /\ hpc = "idle" /\ hpc' = "line88"
                 /\ window_width' # 0 /\ window_height' # 0
                 /\ \E k \in DOMAIN out' :
                       out'[k] = Req("create_buffer", window_width', window_height'))]_vars

\* C17 witness: in the wait loop, after the first surface configure and an
\* accepted resize, a toplevel configure was ignored (the only step there
\* that sends nothing).
C17_Witness ==
    /\ mainpc = "wait"
    /\ hpc = "idle"
    /\ wait_for_configure = "false"
    /\ out = <<>>
    /\ window_width = 800
    /\ attached = buffer1

\* C18: when teardown has completed (exit status 0), every buffer that was
\* created has been destroyed, the one active at shutdown included.
C18_EveryBufferDestroyed ==
    (mainpc = "exited" /\ exit_status = 0) =>
        \A b \in DOMAIN buffers : buffers[b].destroyed

\* C19: nothing is attached to the surface, and redraw has sent no attach
\* or damage, while wait_for_configure is not yet false.
C19_NoAttachBeforeConfigure ==
    (\/ attached # 0
     \/ \E k \in DOMAIN out : out[k].op \in {"attach", "damage"})
    => wait_for_configure = "false"

\* C19 witness: the first redraw, by a resize that came in the wait loop
\* right after the first surface configure.
C19_Witness ==
    /\ mainpc = "wait"
    /\ wait_for_configure = "false"
    /\ attached = 2
    /\ Ops(out) = <<"attach", "damage", "commit", "flush">>

\* C20: no os.write of a signal ever blocks: neither the timer thread nor
\* the SIGINT handler finds a notifier's counter without room for the value
\* written.
C20_SignalNeverBlocks ==
    /\ tpc \notin {"t306b", "t310b"}
    /\ mainpc # "sigblocked"

====
